---- MODULE Spec2Model ----
(***************************************************************************)
(* State-machine model of optoguard's scene state and alert engine:        *)
(*   - WatchdogMonitor (watchdog.py): persistence tracking, empty-scene,   *)
(*     first-frame and steady-state alerting with per-key cooldowns;       *)
(*   - DetectionManager (utils.py): the debounced spatial description,     *)
(*     and its helpers _group_objects_by_position and _is_scene_similar    *)
(*     called on their own;                                                *)
(*   - a process_scene call taken statement by statement, which an         *)
(*     exception can leave after the persistence update.                   *)
(* Times are whole seconds, confidences are tenths, bounding-box           *)
(* coordinates are hundredths of the frame.                                *)
(***************************************************************************)
EXTENDS Integers, Sequences, FiniteSets, TLC

VARIABLES
    clock,                   \* last value returned by time.time()
    previous_state,          \* WatchdogMonitor.previous_state
    last_alert_time,         \* WatchdogMonitor.last_alert_time
    last_empty_alert_time,   \* WatchdogMonitor.last_empty_alert_time
    persistent_objects,      \* WatchdogMonitor.persistent_objects
    object_persistence_time, \* WatchdogMonitor.object_persistence_time
    current_objects,         \* process_scene: current_objects of the last call
    alerts,                  \* process_scene: the list returned by the last call
    branch,                  \* process_scene: the return statement the last call left by
    present_since,           \* history: label -> time of the first call of its current run of presence
    entry_previous,          \* history: whether previous_state was None, and its labels, when the last call began
    last_emitted,            \* history: message -> time of the last call that returned it
    prev_emitted,            \* history: message -> time of the call that returned it before that
    first_frame_calls,       \* history: number of calls that took the first-scene branch
    last_scene,              \* history: the labels of the last filtered frame that was not empty
    after_empty,             \* history: the call before the last had an empty filtered frame
    listing_alerts,          \* history, kept when the order is studied: what the last call returns for every order its detections can be listed and its sets iterated in
    last_detection_time,     \* DetectionManager.last_detection_time
    last_announcement,       \* DetectionManager.last_announcement
    last_announcement_time,  \* DetectionManager.last_announcement_time
    last_announcement_objects, \* DetectionManager.last_announcement_objects
    description,             \* get_spatial_description: the string returned by the last call
    describe_path,           \* get_spatial_description: the return statement the last call left by
    last_spoken,             \* history: time of the last call that returned a non-empty string
    prev_spoken,             \* history: time of the call that returned one before that
    frame_objects,           \* get_spatial_description: current_objects of the last call
    described_sets,          \* history: the label sets of the calls that returned a composed description
    listing_outputs,         \* history: what the last call returns for every order its detections can be listed in
    described_frame,         \* history, kept when the composition is studied: the detections of the last call
    grouped,                 \* _group_objects_by_position: the detections of the last call
    position_groups,         \* _group_objects_by_position: the groups it returned
    compared,                \* _is_scene_similar: the two label sets last compared
    similar,                 \* _is_scene_similar: what it answered for them, in both orders
    pc,                      \* process_scene: where a call that can fail stands
    pending,                 \* process_scene: detections and current_time of that call
    entry_state,             \* history: the attributes of WatchdogMonitor when that call began
    watchdog_mode,           \* main: watchdog_mode
    last_mode_switch,        \* main: last_mode_switch
    bottle_detected,         \* main: bottle_detected
    in_view,                 \* history: a bottle was in the frame of the last tick
    last_flip,               \* history: time of the last tick that changed watchdog_mode
    prev_flip,               \* history: time of the tick that changed it before that
    run_flips,               \* history: changes of watchdog_mode during the ticks, up to the last, that had a bottle in view without a break
    last_call,               \* history: the method of DetectionManager called last, when calls are followed
    reset_before,            \* history: reset() was the call before that one
    announced                \* history: what should_announce returned when called last

wvars == <<previous_state, last_alert_time, last_empty_alert_time,
           persistent_objects, object_persistence_time, current_objects,
           alerts, branch, present_since, entry_previous, last_emitted,
           prev_emitted, first_frame_calls, last_scene, after_empty,
           listing_alerts>>

dvars == <<last_detection_time, last_announcement, last_announcement_time,
           last_announcement_objects, description, describe_path, last_spoken,
           prev_spoken, frame_objects, described_sets, listing_outputs,
           described_frame>>

\* the helpers of DetectionManager called on their own
hvars == <<grouped, position_groups, compared, similar>>

\* a process_scene call taken statement by statement
avars == <<pc, pending, entry_state>>

\* the main loop
mvars == <<watchdog_mode, last_mode_switch, bottle_detected, in_view,
           last_flip, prev_flip, run_flips>>

\* the calls of DetectionManager, followed across reset()
rvars == <<last_call, reset_before, announced>>

vars == <<clock, wvars, dvars, hvars, avars, mvars, rvars>>

----------------------------------------------------------------------------
(* Bounds of the model *)

\* the clock is read up to this many seconds when alerts are studied,
\* when persistence is studied and when the empty scene is studied
MaxAlertTime == 10
MaxPersistTime == 20
MaxEmptyTime == 89
\* and when the order of the detections is studied
MaxOrderTime == 5
\* and when a call that fails is studied
MaxAtomicTime == 5
\* and when the main loop is studied
MaxLoopTime == 9
\* and when important_objects is studied
MaxImportantTime == 60
\* and when reset() is studied
MaxResetTime == 6
\* the clock is read up to this many seconds when descriptions are studied
MaxDescribeTime == 10
\* and up to this many when a label set is described a second time
MaxRedescribeTime == 15
\* and up to this many when the composition of a description is studied
MaxComposeTime == 5
\* a frame holds at most this many detections
MaxDetections == 2

----------------------------------------------------------------------------
(* Configuration *)

cooldown_seconds == 5
empty_scene_cooldown == 30
min_confidence == 5
min_persistence_time == 10

important_objects ==
    {"laptop", "cell phone", "backpack", "handbag", "suitcase",
     "person", "bicycle", "car", "motorcycle"}

INFO == "INFO"
WARNING == "WARNING"
ALERT == "ALERT"

\* the value of an attribute that holds no SceneState
None == [tag |-> "None"]

SceneState(objects, timestamp, is_empty) ==
    [objects |-> objects, timestamp |-> timestamp, is_empty |-> is_empty]

----------------------------------------------------------------------------
(* Python dictionaries and strings *)

EmptyDict == [k \in {} |-> 0]

\* dict.get(key, default)
Get(d, key, default) == IF key \in DOMAIN d THEN d[key] ELSE default

\* d[key] = value
Put(d, key, value) ==
    [k \in DOMAIN d \cup {key} |-> IF k = key THEN value ELSE d[k]]

\* str.capitalize() on the labels of the model
Capitalize(s) ==
    CASE s = "laptop" -> "Laptop"
      [] s = "cell phone" -> "Cell phone"
      [] s = "backpack" -> "Backpack"
      [] s = "handbag" -> "Handbag"
      [] s = "suitcase" -> "Suitcase"
      [] s = "person" -> "Person"
      [] s = "bicycle" -> "Bicycle"
      [] s = "car" -> "Car"
      [] s = "motorcycle" -> "Motorcycle"
      [] s = "cup" -> "Cup"
      [] OTHER -> s

\* every order a set can be iterated in
Orders(S) ==
    {o \in [1..Cardinality(S) -> S] : \A i, j \in 1..Cardinality(S) : o[i] = o[j] => i = j}

\* every order a list of detections can be given in
Listings(detections) ==
    {[i \in DOMAIN detections |-> detections[o[i]]] : o \in Orders(DOMAIN detections)}

----------------------------------------------------------------------------
(* Inputs *)

\* one confidence below min_confidence and one equal to it
Confidences == {4, 5}
WatchdogBoxes == {<<1, 1, 2, 2>>}

Detection(name, conf, bbox) == <<name, conf, bbox>>

WatchdogDetections(labels) ==
    {Detection(n, c, b) : n \in labels, c \in Confidences, b \in WatchdogBoxes}

FramesOf(D) == UNION {[1..n -> D] : n \in 0..MaxDetections}

\* labels of the frames and seconds between two readings of the clock,
\* around cooldown_seconds, min_persistence_time and empty_scene_cooldown
AlertLabels == {"person", "laptop"}
AlertDelays == {0, 4, 5}
PersistLabels == {"laptop", "cup"}
PersistDelays == {0, 9, 10}
\* one label of important_objects and one outside, and the seconds of
\* empty_scene_cooldown, which are past cooldown_seconds too
ImportantLabels == {"laptop", "cup"}
ImportantDelays == {0, 30}
EmptyLabels == {"laptop"}
EmptyDelays == {0, 29, 30}

\* frames whose order matters: two important labels that come or go
\* together and a third label
OrderLabels == {"person", "laptop", "cup"}
OrderDetections ==
    {Detection(n, min_confidence, b) : n \in OrderLabels, b \in WatchdogBoxes}
OrderDelays == {0, 5}

\* frames of the calls that can fail
AtomicLabels == {"laptop", "cup"}
AtomicDelays == {0, 5}

----------------------------------------------------------------------------
(* WatchdogMonitor *)

\* {name: (conf, bbox) for name, conf, bbox in detections if conf >= min_confidence}
\* a later detection of a name overwrites an earlier one
_get_current_objects(detections) ==
    LET kept == {i \in DOMAIN detections : detections[i][2] >= min_confidence}
        names == {detections[i][1] : i \in kept}
        last(n) == CHOOSE i \in kept :
                      /\ detections[i][1] = n
                      /\ \A j \in kept : detections[j][1] = n => j <= i
    IN  [n \in names |-> <<detections[last(n)][2], detections[last(n)][3]>>]

_is_significant_change(current, previous) ==
    IF DOMAIN previous = {}
    THEN DOMAIN current # {}
    ELSE LET new_objects == DOMAIN current \ DOMAIN previous
             removed_objects == DOMAIN previous \ DOMAIN current
         IN  \/ new_objects \cap important_objects # {}
             \/ removed_objects \cap important_objects # {}

\* first loop of _update_persistent_objects: a label seen for the first time
\* gets current_time, one whose timer is old enough is promoted
PersistenceTimesSeen(current_set, current_time) ==
    [obj \in DOMAIN object_persistence_time \cup current_set |->
        IF obj \in DOMAIN object_persistence_time
        THEN object_persistence_time[obj]
        ELSE current_time]

\* a promotion that asks for more than min_persistence_time
PersistentSeenLater(current_set, current_time) ==
    persistent_objects \cup
    {obj \in current_set :
        /\ obj \in DOMAIN object_persistence_time
        /\ current_time - object_persistence_time[obj] > min_persistence_time}

PersistentSeen(current_set, current_time) ==
    persistent_objects \cup
    {obj \in current_set :
        /\ obj \in DOMAIN object_persistence_time
        /\ current_time - object_persistence_time[obj] >= min_persistence_time}

\* second loop of _update_persistent_objects: it walks persistent_objects
NoLongerPresent(current_set, current_time) ==
    {obj \in PersistentSeen(current_set, current_time) : obj \notin current_set}

_update_persistent_objects(current, current_time) ==
    LET current_set == DOMAIN current
        gone == NoLongerPresent(current_set, current_time)
        times == PersistenceTimesSeen(current_set, current_time)
    IN  /\ persistent_objects' = PersistentSeen(current_set, current_time) \ gone
        /\ object_persistence_time' = [obj \in DOMAIN times \ gone |-> times[obj]]

\* the empty-scene test made with the cooldown of the object alerts
ShouldAlertEmptySceneObjectCooldown(current_time) ==
    (current_time - last_empty_alert_time) >= cooldown_seconds

_should_alert_empty_scene(current_time) ==
    (current_time - last_empty_alert_time) >= empty_scene_cooldown

NewMessage(obj) == <<ALERT, "New " \o obj \o " detected in the scene.">>
RemovedMessage(obj) == <<WARNING, Capitalize(obj) \o " has been removed from the scene.">>
PersonMessage == <<ALERT, "Person detected in the scene.">>
ClearMessage == <<INFO, "Scene is clear.">>

\* the cooldown test that only asks for a later reading of the clock
CooldownElapsedAnyLater(times, key, current_time) ==
    (current_time - Get(times, key, 0)) > 0

CooldownElapsed(times, key, current_time) ==
    (current_time - Get(times, key, 0)) >= cooldown_seconds

\* the loop over new_objects without the test of important_objects
RECURSIVE NewObjectsLoopAnyLabel(_, _, _, _)
NewObjectsLoopAnyLabel(order, i, current_time, acc) ==
    IF i > Len(order) THEN acc
    ELSE LET obj == order[i]
             fire == CooldownElapsed(acc.times, obj, current_time)
         IN  NewObjectsLoopAnyLabel(order, i + 1, current_time,
                 IF fire
                 THEN [alerts |-> Append(acc.alerts, NewMessage(obj)),
                       times |-> Put(acc.times, obj, current_time)]
                 ELSE acc)

\* for obj in new_objects: ... ; acc is [alerts, times]
RECURSIVE NewObjectsLoop(_, _, _, _)
NewObjectsLoop(order, i, current_time, acc) ==
    IF i > Len(order) THEN acc
    ELSE LET obj == order[i]
             fire == /\ obj \in important_objects
                     /\ CooldownElapsed(acc.times, obj, current_time)
         IN  NewObjectsLoop(order, i + 1, current_time,
                 IF fire
                 THEN [alerts |-> Append(acc.alerts, NewMessage(obj)),
                       times |-> Put(acc.times, obj, current_time)]
                 ELSE acc)

\* for obj in removed_objects: ...
RECURSIVE RemovedObjectsLoop(_, _, _, _)
RemovedObjectsLoop(order, i, current_time, acc) ==
    IF i > Len(order) THEN acc
    ELSE LET obj == order[i]
             fire == /\ obj \in important_objects
                     /\ CooldownElapsed(acc.times, "removed_" \o obj, current_time)
         IN  RemovedObjectsLoop(order, i + 1, current_time,
                 IF fire
                 THEN [alerts |-> Append(acc.alerts, RemovedMessage(obj)),
                       times |-> Put(acc.times, "removed_" \o obj, current_time)]
                 ELSE acc)

\* the person test without the look at previous_state
PersonPresent(current) ==
    "person" \in DOMAIN current

\* the person test that is silent once the key "person" has been stamped
PersonAppearedUnstamped(current) ==
    /\ "person" \in DOMAIN current
    /\ "person" \notin DOMAIN previous_state.objects
    /\ "person" \notin DOMAIN last_alert_time

\* 'person' in current_objects and 'person' not in self.previous_state.objects
PersonAppeared(current) ==
    /\ "person" \in DOMAIN current
    /\ "person" \notin DOMAIN previous_state.objects

\* the steady state with the removed objects looked at before the new ones
SteadyStateRemovedFirst(current, current_time, new_order, removed_order) ==
    LET start == [alerts |-> <<>>, times |-> last_alert_time]
        changed == IF _is_significant_change(current, previous_state.objects)
                   THEN NewObjectsLoop(new_order, 1, current_time,
                            RemovedObjectsLoop(removed_order, 1, current_time, start))
                   ELSE start
    IN  [alerts |-> IF PersonAppeared(current)
                    THEN Append(changed.alerts, PersonMessage)
                    ELSE changed.alerts,
         times |-> changed.times]

\* the alerts and cooldown stamps of lines 110-130
SteadyState(current, current_time, new_order, removed_order) ==
    LET start == [alerts |-> <<>>, times |-> last_alert_time]
        changed == IF _is_significant_change(current, previous_state.objects)
                   THEN RemovedObjectsLoop(removed_order, 1, current_time,
                            NewObjectsLoop(new_order, 1, current_time, start))
                   ELSE start
    IN  [alerts |-> IF PersonAppeared(current)
                    THEN Append(changed.alerts, PersonMessage)
                    ELSE changed.alerts,
         times |-> changed.times]

Messages(out) == {out[i] : i \in DOMAIN out}

\* history variables, from what the call was given and what it returned
Observe(current, current_time, out, took) ==
    /\ current_objects' = current
    /\ alerts' = out
    /\ branch' = took
    /\ present_since' =
           [obj \in DOMAIN current |-> Get(present_since, obj, current_time)]
    /\ entry_previous' =
           IF previous_state = None
           THEN [is_none |-> TRUE, labels |-> {}]
           ELSE [is_none |-> FALSE, labels |-> DOMAIN previous_state.objects]
    /\ last_emitted' =
           [m \in DOMAIN last_emitted \cup Messages(out) |->
               IF m \in Messages(out) THEN current_time ELSE last_emitted[m]]
    /\ prev_emitted' =
           [m \in DOMAIN prev_emitted \cup (Messages(out) \cap DOMAIN last_emitted) |->
               IF m \in Messages(out) THEN last_emitted[m] ELSE prev_emitted[m]]
    /\ first_frame_calls' =
           IF took = "first" /\ first_frame_calls < 2
           THEN first_frame_calls + 1 ELSE first_frame_calls
    /\ last_scene' = IF DOMAIN current # {} THEN DOMAIN current ELSE last_scene
    /\ after_empty' = (branch = "empty")

\* the empty-scene branch storing the empty scene as previous_state
EmptySceneBranchStoresScene(current, current_time) ==
    /\ IF _should_alert_empty_scene(current_time)
       THEN /\ last_empty_alert_time' = current_time
            /\ Observe(current, current_time, <<ClearMessage>>, "empty")
       ELSE /\ UNCHANGED last_empty_alert_time
            /\ Observe(current, current_time, <<>>, "empty")
    /\ previous_state' = SceneState(current, current_time, TRUE)
    /\ UNCHANGED last_alert_time

\* the empty-scene branch forgetting previous_state
EmptySceneBranchForgetsScene(current, current_time) ==
    /\ IF _should_alert_empty_scene(current_time)
       THEN /\ last_empty_alert_time' = current_time
            /\ Observe(current, current_time, <<ClearMessage>>, "empty")
       ELSE /\ UNCHANGED last_empty_alert_time
            /\ Observe(current, current_time, <<>>, "empty")
    /\ previous_state' = None
    /\ UNCHANGED last_alert_time

\* lines 96-100: the scene is empty
EmptySceneBranch(current, current_time) ==
    /\ IF _should_alert_empty_scene(current_time)
       THEN /\ last_empty_alert_time' = current_time
            /\ Observe(current, current_time, <<ClearMessage>>, "empty")
       ELSE /\ UNCHANGED last_empty_alert_time
            /\ Observe(current, current_time, <<>>, "empty")
    /\ UNCHANGED <<previous_state, last_alert_time>>

\* the first-scene branch without the store into previous_state
FirstSceneBranchNotStored(current, current_time) ==
    /\ Observe(current, current_time,
           IF "person" \in DOMAIN current THEN <<PersonMessage>> ELSE <<>>,
           "first")
    /\ UNCHANGED <<previous_state, last_alert_time, last_empty_alert_time>>

\* lines 103-108: the first scene is stored
FirstSceneBranch(current, current_time) ==
    /\ previous_state' = SceneState(current, current_time, FALSE)
    /\ Observe(current, current_time,
           IF "person" \in DOMAIN current THEN <<PersonMessage>> ELSE <<>>,
           "first")
    /\ UNCHANGED <<last_alert_time, last_empty_alert_time>>

\* the steady-state branch without the store of line 133
SteadyStateBranchNotStored(current, current_time, new_order, removed_order) ==
    LET r == SteadyState(current, current_time, new_order, removed_order)
    IN  /\ last_alert_time' = r.times
        /\ Observe(current, current_time, r.alerts, "steady")
        /\ UNCHANGED <<previous_state, last_empty_alert_time>>

\* lines 110-134: the scene is compared with previous_state
SteadyStateBranch(current, current_time, new_order, removed_order) ==
    LET r == SteadyState(current, current_time, new_order, removed_order)
    IN  /\ last_alert_time' = r.times
        /\ previous_state' = SceneState(current, current_time, FALSE)
        /\ Observe(current, current_time, r.alerts, "steady")
        /\ UNCHANGED last_empty_alert_time

\* lines 95-134, after the persistence update
SceneBranches(current, current_time, new_order, removed_order) ==
    IF DOMAIN current = {}
    THEN EmptySceneBranch(current, current_time)
    ELSE IF previous_state = None
    THEN FirstSceneBranch(current, current_time)
    ELSE SteadyStateBranch(current, current_time, new_order, removed_order)

\* new_order and removed_order are the orders in which the sets new_objects
\* and removed_objects are iterated
process_scene(detections, current_time, new_order, removed_order) ==
    LET current == _get_current_objects(detections)
    IN  /\ _update_persistent_objects(current, current_time)
        /\ SceneBranches(current, current_time, new_order, removed_order)

\* the list process_scene returns
Alerts(current, current_time, new_order, removed_order) ==
    IF DOMAIN current = {}
    THEN (IF _should_alert_empty_scene(current_time) THEN <<ClearMessage>> ELSE <<>>)
    ELSE IF previous_state = None
    THEN (IF "person" \in DOMAIN current THEN <<PersonMessage>> ELSE <<>>)
    ELSE SteadyState(current, current_time, new_order, removed_order).alerts

\* the labels of previous_state
PreviousLabels == IF previous_state = None THEN {} ELSE DOMAIN previous_state.objects

\* what a call can return and store as the objects of the scene, over the
\* orders the detections can be listed in and the sets iterated in
AlertsOfListings(detections, current_time) ==
    LET stored == {_get_current_objects(listing) : listing \in Listings(detections)}
    IN  {[alerts |-> Alerts(current, current_time, new_order, removed_order),
          objects |-> current] :
            current \in stored,
            new_order \in Orders(DOMAIN _get_current_objects(detections) \ PreviousLabels),
            removed_order \in Orders(PreviousLabels \ DOMAIN _get_current_objects(detections))}

\* listed: the history of the listings is kept
ProcessSceneFrom(D, delays, horizon, listed) ==
    \E detections \in FramesOf(D), d \in delays :
        LET current_time == clock + d
            current == _get_current_objects(detections)
        IN  /\ current_time <= horizon
            /\ clock' = current_time
            /\ \E new_order \in Orders(DOMAIN current \ PreviousLabels),
                  removed_order \in Orders(PreviousLabels \ DOMAIN current) :
                  process_scene(detections, current_time, new_order, removed_order)
            /\ listing_alerts' = IF listed
                                 THEN AlertsOfListings(detections, current_time)
                                 ELSE listing_alerts
            /\ UNCHANGED <<dvars, hvars, avars, mvars, rvars>>

ProcessScene(labels, delays, horizon) ==
    ProcessSceneFrom(WatchdogDetections(labels), delays, horizon, FALSE)

\* the attributes of WatchdogMonitor that a call writes
MonitorState ==
    <<last_alert_time, persistent_objects, object_persistence_time,
      last_empty_alert_time, previous_state>>

\* lines 88-93 of a call: the clock is read, the frame is filtered and the
\* persistence tracking is updated
BeginProcessScene(D, delays, horizon) ==
    \E detections \in FramesOf(D), d \in delays :
        LET current_time == clock + d
        IN  /\ pc \in {"idle", "failed"}
            /\ current_time <= horizon
            /\ clock' = current_time
            /\ _update_persistent_objects(_get_current_objects(detections), current_time)
            /\ pc' = "tracked"
            /\ pending' = [detections |-> detections, current_time |-> current_time]
            /\ entry_state' = MonitorState
            /\ UNCHANGED <<previous_state, last_alert_time, last_empty_alert_time,
                           current_objects, alerts, branch, present_since,
                           entry_previous, last_emitted, prev_emitted,
                           first_frame_calls, last_scene, after_empty,
                           listing_alerts, dvars, hvars, mvars, rvars>>

\* lines 95-134 of that call
FinishProcessScene ==
    LET current == _get_current_objects(pending.detections)
    IN  /\ pc = "tracked"
        /\ \E new_order \in Orders(DOMAIN current \ PreviousLabels),
              removed_order \in Orders(PreviousLabels \ DOMAIN current) :
              SceneBranches(current, pending.current_time, new_order, removed_order)
        /\ pc' = "idle"
        /\ UNCHANGED <<clock, persistent_objects, object_persistence_time,
                       listing_alerts, pending, entry_state, dvars, hvars,
                       mvars, rvars>>

\* an exception leaves the call after line 93: nothing is undone
FailProcessScene ==
    /\ pc = "tracked"
    /\ pc' = "failed"
    /\ UNCHANGED <<clock, wvars, dvars, hvars, mvars, rvars, pending, entry_state>>

WatchdogInit ==
    /\ clock = 0
    /\ previous_state = None
    /\ last_alert_time = EmptyDict
    /\ last_empty_alert_time = 0
    /\ persistent_objects = {}
    /\ object_persistence_time = EmptyDict
    /\ current_objects = EmptyDict
    /\ alerts = <<>>
    /\ branch = "none"
    /\ present_since = EmptyDict
    /\ entry_previous = [is_none |-> TRUE, labels |-> {}]
    /\ last_emitted = EmptyDict
    /\ prev_emitted = EmptyDict
    /\ first_frame_calls = 0
    /\ last_scene = {}
    /\ after_empty = FALSE
    /\ listing_alerts = {}
    /\ pc = "idle"
    /\ pending = [detections |-> <<>>, current_time |-> 0]
    /\ entry_state = MonitorState

----------------------------------------------------------------------------
(* DetectionManager *)

\* main.py constructs DetectionManager(cooldown_seconds=5.0)
describe_cooldown_seconds == 5
\* 0.7, in tenths
similarity_threshold == 7

large_objects ==
    {"refrigerator", "oven", "microwave", "tv", "monitor",
     "bed", "couch", "chair", "table", "desk", "bookshelf",
     "cabinet", "shelf", "counter", "bench", "sofa"}

\* frames given to get_spatial_description: a large and a small object in
\* boxes whose centres lie above, in front to the left, in front, in front
\* to the right and below; no centre lies on a threshold
DescribeLabels == {"cup", "chair"}
DescribeBoxes ==
    {<<10, 10, 20, 20>>, <<10, 50, 30, 90>>, <<40, 40, 60, 60>>,
     <<70, 40, 90, 60>>, <<40, 80, 60, 100>>}
DescribeDetections(labels) ==
    {Detection(n, 9, b) : n \in labels, b \in DescribeBoxes}
DescribeDelays == {0, 4, 5}

\* frames for describing a label set a second time: the two labels, above
\* and below
RedescribeBoxes == {<<10, 10, 20, 20>>, <<40, 80, 60, 100>>}
RedescribeDetections ==
    {Detection(n, 9, b) : n \in DescribeLabels, b \in RedescribeBoxes}

\* frames whose composition is studied: a cup in each of the five groups
\* and a chair above
ComposeDetections ==
    {Detection("cup", 9, b) : b \in DescribeBoxes}
        \cup {Detection("chair", 9, <<10, 10, 20, 20>>)}
ComposeDelays == {0, 5}

\* a vertical position that treats a large object as any other
VerticalPositionIgnoringSize(bbox, obj_name) ==
    LET center_y2 == bbox[2] + bbox[4]
    IN  IF center_y2 < 2 * 40 THEN "above"
        ELSE IF center_y2 > 2 * 70 THEN "below"
        ELSE "in front of"

\* center_y = (y1 + y2) / 2 against 0.3, 0.4 and 0.7, in hundredths and doubled
_get_vertical_position(bbox, obj_name) ==
    LET center_y2 == bbox[2] + bbox[4]
    IN  IF obj_name \in large_objects
        THEN IF center_y2 > 2 * 30 THEN "in front of" ELSE "above"
        ELSE IF center_y2 < 2 * 40 THEN "above"
        ELSE IF center_y2 > 2 * 70 THEN "below"
        ELSE "in front of"

\* center_x = (x1 + x2) / 2 against 0.4 and 0.6
_get_horizontal_position(bbox) ==
    LET center_x2 == bbox[1] + bbox[3]
    IN  IF center_x2 < 2 * 40 THEN "to your left"
        ELSE IF center_x2 > 2 * 60 THEN "to your right"
        ELSE "in front of"

\* a grouping that leaves every large object in front in the "in_front" group
GroupOfLargeInFront(name, bbox) ==
    LET vert_pos == _get_vertical_position(bbox, name)
        horiz_pos == _get_horizontal_position(bbox)
    IN  IF vert_pos = "above" THEN "above"
        ELSE IF vert_pos = "below" THEN "below"
        ELSE IF name \in large_objects THEN "in_front"
        ELSE IF horiz_pos = "to your left" THEN "left"
        ELSE IF horiz_pos = "to your right" THEN "right"
        ELSE "in_front"

\* the key of groups a detection is appended to
GroupOf(name, bbox) ==
    LET vert_pos == _get_vertical_position(bbox, name)
        horiz_pos == _get_horizontal_position(bbox)
    IN  IF vert_pos = "above" THEN "above"
        ELSE IF vert_pos = "below" THEN "below"
        ELSE IF horiz_pos = "to your left" THEN "left"
        ELSE IF horiz_pos = "to your right" THEN "right"
        ELSE "in_front"

\* list.append over the detections in the order they are listed
RECURSIVE GroupNames(_, _, _)
GroupNames(detections, i, key) ==
    IF i > Len(detections) THEN <<>>
    ELSE LET d == detections[i]
         IN  (IF GroupOf(d[1], d[3]) = key THEN <<d[1]>> ELSE <<>>)
             \o GroupNames(detections, i + 1, key)

_group_objects_by_position(detections) ==
    [key \in {"above", "in_front", "below", "left", "right"} |->
        GroupNames(detections, 1, key)]

\* a similarity that is the share of the previous labels still in view
SimilarityOfPrevious(current, previous) ==
    LET intersection == Cardinality(current \cap previous)
        size == Cardinality(previous)
    IN  IF size > 0 THEN <<intersection, size>> ELSE <<0, 1>>

\* similarity, lines 112-114, as <<numerator, denominator>>
Similarity(current, previous) ==
    LET intersection == Cardinality(current \cap previous)
        union == Cardinality(current \cup previous)
    IN  IF union > 0 THEN <<intersection, union>> ELSE <<0, 1>>

_is_scene_similar(current, previous) ==
    IF previous = {} THEN FALSE
    ELSE LET similarity == Similarity(current, previous)
         IN  10 * similarity[1] >= similarity_threshold * similarity[2]

\* ", ".join(strings)
RECURSIVE Join(_)
Join(strings) ==
    IF Len(strings) = 0 THEN ""
    ELSE IF Len(strings) = 1 THEN strings[1]
    ELSE strings[1] \o ", " \o Join(Tail(strings))

\* parts with a segment for the group "below" as well
PartsWithBelow(groups) ==
    (IF Len(groups["above"]) > 0
     THEN <<Join(groups["above"]) \o " above">> ELSE <<>>)
    \o (IF Len(groups["in_front"]) > 0
        THEN <<Join(groups["in_front"]) \o " in front">> ELSE <<>>)
    \o (IF Len(groups["left"]) > 0
        THEN <<Join(groups["left"]) \o " around the left">> ELSE <<>>)
    \o (IF Len(groups["right"]) > 0
        THEN <<Join(groups["right"]) \o " around the right">> ELSE <<>>)
    \o (IF Len(groups["below"]) > 0
        THEN <<Join(groups["below"]) \o " below">> ELSE <<>>)

\* parts, lines 141-161: one segment for each non-empty rendered group
Parts(groups) ==
    (IF Len(groups["above"]) > 0
     THEN <<Join(groups["above"]) \o " above">> ELSE <<>>)
    \o (IF Len(groups["in_front"]) > 0
        THEN <<Join(groups["in_front"]) \o " in front">> ELSE <<>>)
    \o (IF Len(groups["left"]) > 0
        THEN <<Join(groups["left"]) \o " around the left">> ELSE <<>>)
    \o (IF Len(groups["right"]) > 0
        THEN <<Join(groups["right"]) \o " around the right">> ELSE <<>>)

\* a test that looks at the cooldown only
SuppressedByCooldown(current, current_time) ==
    current_time - last_announcement_time < describe_cooldown_seconds

\* the test of lines 133-134
Suppressed(current, current_time) ==
    \/ current_time - last_announcement_time < describe_cooldown_seconds
    \/ _is_scene_similar(current, last_announcement_objects)

\* line 167
Composed(detections) ==
    LET parts == Parts(_group_objects_by_position(detections))
    IN  IF Len(parts) > 0 THEN "I see " \o Join(parts) ELSE ""

\* the string get_spatial_description returns
Returned(detections, current_time) ==
    LET current == {detections[i][1] : i \in DOMAIN detections}
    IN  IF Suppressed(current, current_time) THEN ""
        ELSE IF Len(detections) = 0 THEN "The scene is empty."
        ELSE Composed(detections)

\* history variables, from what the call was given and what it returned
Spoken(detections, out, took, current_time) ==
    LET current == {detections[i][1] : i \in DOMAIN detections}
    IN  /\ description' = out
        /\ describe_path' = took
        /\ last_spoken' = IF out # "" THEN current_time ELSE last_spoken
        /\ prev_spoken' = IF out # "" THEN last_spoken ELSE prev_spoken
        /\ frame_objects' = current
        /\ described_sets' = IF took = "composed" /\ out # ""
                             THEN described_sets \cup {current}
                             ELSE described_sets
        /\ listing_outputs' =
              {Returned(listing, current_time) : listing \in Listings(detections)}

\* an empty frame that is recorded as the last announcement
EmptyFrameRecorded(detections, current_time) ==
    /\ Spoken(detections, "The scene is empty.", "empty", current_time)
    /\ last_announcement_time' = current_time
    /\ last_announcement_objects' = {}

\* lines 136-138
EmptyFrame(detections, current_time) ==
    /\ Spoken(detections, "The scene is empty.", "empty", current_time)
    /\ UNCHANGED <<last_announcement_time, last_announcement_objects>>

get_spatial_description(detections, current_time) ==
    LET current == {detections[i][1] : i \in DOMAIN detections}
    IN  /\ IF Suppressed(current, current_time)
           THEN /\ Spoken(detections, "", "suppressed", current_time)
                /\ UNCHANGED <<last_announcement_time, last_announcement_objects>>
           ELSE IF Len(detections) = 0
           THEN EmptyFrame(detections, current_time)
           ELSE /\ last_announcement_time' = current_time
                /\ last_announcement_objects' = current
                /\ Spoken(detections, Composed(detections), "composed", current_time)
        /\ UNCHANGED <<last_detection_time, last_announcement>>

\* kept: the history of the detections is kept
DescribeKeeping(D, delays, horizon, kept) ==
    \E detections \in FramesOf(D), d \in delays :
        LET current_time == clock + d
        IN  /\ current_time <= horizon
            /\ clock' = current_time
            /\ get_spatial_description(detections, current_time)
            /\ described_frame' = IF kept THEN detections ELSE described_frame
            /\ UNCHANGED <<wvars, hvars, avars, mvars, rvars>>

DescribeFrom(D, delays, horizon) ==
    DescribeKeeping(D, delays, horizon, FALSE)

Describe(labels, delays, horizon) ==
    DescribeFrom(DescribeDetections(labels), delays, horizon)

\* the time of an event that has not happened
Never == 0 - 1

DescriberInit ==
    /\ last_detection_time = EmptyDict
    /\ last_announcement = ""
    /\ last_announcement_time = 0
    /\ last_announcement_objects = {}
    /\ description = ""
    /\ describe_path = "none"
    /\ last_spoken = Never
    /\ prev_spoken = Never
    /\ frame_objects = {}
    /\ described_sets = {}
    /\ listing_outputs = {}
    /\ described_frame = <<>>

----------------------------------------------------------------------------
(* reset() and should_announce(), and the calls of DetectionManager followed
   from one to the next *)

AnnounceNames == {"cup", "chair"}
AnnounceDelays == {0, 1, 5}
ResetDetections ==
    {Detection("cup", 9, <<40, 40, 60, 60>>), Detection("chair", 9, <<40, 40, 60, 60>>)}

\* what should_announce returns, lines 37-49; the cooldown_seconds of
\* DetectionManager is the one get_spatial_description uses
ShouldAnnounce(object_name, current_time) ==
    \/ object_name \notin DOMAIN last_detection_time
    \/ current_time - last_detection_time[object_name] >= describe_cooldown_seconds

should_announce(object_name, current_time) ==
    /\ announced' = ShouldAnnounce(object_name, current_time)
    /\ last_detection_time' =
          IF ShouldAnnounce(object_name, current_time)
          THEN Put(last_detection_time, object_name, current_time)
          ELSE last_detection_time

Announce(names, delays, horizon) ==
    \E object_name \in names, d \in delays :
        LET current_time == clock + d
        IN  /\ current_time <= horizon
            /\ clock' = current_time
            /\ should_announce(object_name, current_time)
            /\ last_call' = "should_announce"
            /\ reset_before' = (last_call = "reset")
            /\ UNCHANGED <<last_announcement, last_announcement_time,
                           last_announcement_objects, description, describe_path,
                           last_spoken, prev_spoken, frame_objects, described_sets,
                           listing_outputs, described_frame>>
            /\ UNCHANGED <<wvars, hvars, avars, mvars>>

\* lines 169-172
reset ==
    /\ last_detection_time' = EmptyDict
    /\ last_announcement' = ""
    /\ UNCHANGED <<last_announcement_time, last_announcement_objects>>

Reset ==
    /\ reset
    /\ last_call' = "reset"
    /\ reset_before' = FALSE
    /\ UNCHANGED <<clock, announced, description, describe_path, last_spoken,
                   prev_spoken, frame_objects, described_sets, listing_outputs,
                   described_frame>>
    /\ UNCHANGED <<wvars, hvars, avars, mvars>>

DescribeFollowed(D, delays, horizon) ==
    \E detections \in FramesOf(D), d \in delays :
        LET current_time == clock + d
        IN  /\ current_time <= horizon
            /\ clock' = current_time
            /\ get_spatial_description(detections, current_time)
            /\ last_call' = "get_spatial_description"
            /\ reset_before' = (last_call = "reset")
            /\ UNCHANGED <<announced, described_frame>>
            /\ UNCHANGED <<wvars, hvars, avars, mvars>>

ResetInit ==
    /\ last_call = "none"
    /\ reset_before = FALSE
    /\ announced = FALSE

----------------------------------------------------------------------------
(* The helpers of DetectionManager, called on their own *)

\* detections given to _group_objects_by_position: boxes whose centres lie
\* above and to the left, in front to the left, in front, between 0.3 and
\* 0.4 of the height, below, and below to the right
GroupLabels == {"cup", "chair"}
GroupBoxes ==
    {<<10, 10, 20, 20>>, <<10, 50, 30, 90>>, <<40, 40, 60, 60>>,
     <<40, 30, 60, 40>>, <<40, 80, 60, 100>>, <<70, 80, 90, 100>>}
GroupDetections == {Detection(n, 8, b) : n \in GroupLabels, b \in GroupBoxes}

\* label sets given to _is_scene_similar
SimilarLabels == {"cup", "chair", "person", "laptop"}

GroupObjects ==
    \E detections \in FramesOf(GroupDetections) :
        /\ grouped' = detections
        /\ position_groups' = _group_objects_by_position(detections)
        /\ UNCHANGED <<clock, wvars, dvars, avars, mvars, rvars, compared, similar>>

CompareScenes ==
    \E A \in SUBSET SimilarLabels, B \in SUBSET SimilarLabels :
        /\ compared' = <<A, B>>
        /\ similar' = [ab |-> _is_scene_similar(A, B),
                       ba |-> _is_scene_similar(B, A),
                       similarity_ab |-> Similarity(A, B),
                       similarity_ba |-> Similarity(B, A)]
        /\ UNCHANGED <<clock, wvars, dvars, avars, mvars, rvars, grouped, position_groups>>

HelperInit ==
    /\ grouped = <<>>
    /\ position_groups = None
    /\ compared = <<>>
    /\ similar = None

----------------------------------------------------------------------------
(* The main loop *)

mode_switch_cooldown == 2

\* time.time() counts seconds from the epoch, the clock here from the start of
\* the program, Epoch seconds later: the 0 of line 35 is the time 0 - Epoch.
\* Any start later than mode_switch_cooldown after the epoch behaves alike.
Epoch == 3

\* frames of the main loop: a bottle in the middle of the frame, or none
LoopDetections == {Detection("bottle", 9, <<40, 40, 60, 60>>)}
LoopDelays == {0, 2, 3}

\* a switch that does not look at the tick before
ModeSwitchWithoutEdge(bottle_in_frame, current_time) ==
    /\ bottle_in_frame
    /\ (current_time - last_mode_switch) > mode_switch_cooldown

\* the test of line 54
ModeSwitch(bottle_in_frame, current_time) ==
    /\ bottle_in_frame
    /\ ~bottle_detected
    /\ (current_time - last_mode_switch) > mode_switch_cooldown

\* one turn of the while loop, lines 41-75: the mode switch, then the call
\* of the component of the mode
MainLoop(D, delays, horizon) ==
    \E detections \in FramesOf(D), d \in delays :
        LET current_time == clock + d
            bottle_in_frame == \E i \in DOMAIN detections : detections[i][1] = "bottle"
            switch == ModeSwitch(bottle_in_frame, current_time)
            mode == IF switch THEN ~watchdog_mode ELSE watchdog_mode
            current == _get_current_objects(detections)
        IN  /\ current_time <= horizon
            /\ clock' = current_time
            /\ watchdog_mode' = mode
            /\ last_mode_switch' = IF switch THEN current_time ELSE last_mode_switch
            /\ bottle_detected' = bottle_in_frame
            /\ in_view' = bottle_in_frame
            /\ last_flip' = IF mode # watchdog_mode THEN current_time ELSE last_flip
            /\ prev_flip' = IF mode # watchdog_mode THEN last_flip ELSE prev_flip
            /\ run_flips' =
                  IF bottle_in_frame
                  THEN (IF in_view THEN run_flips ELSE 0)
                       + (IF mode # watchdog_mode /\ run_flips < 2 THEN 1 ELSE 0)
                  ELSE 0
            /\ IF mode
               THEN /\ \E new_order \in Orders(DOMAIN current \ PreviousLabels),
                          removed_order \in Orders(PreviousLabels \ DOMAIN current) :
                          process_scene(detections, current_time, new_order, removed_order)
                    /\ UNCHANGED <<listing_alerts, dvars>>
               ELSE /\ get_spatial_description(detections, current_time)
                    /\ UNCHANGED <<described_frame, wvars>>
            /\ UNCHANGED <<hvars, avars, rvars>>

MainInit ==
    /\ watchdog_mode = FALSE
    /\ last_mode_switch = 0 - Epoch
    /\ bottle_detected = FALSE
    /\ in_view = FALSE
    /\ last_flip = Never
    /\ prev_flip = Never
    /\ run_flips = 0

Init == WatchdogInit /\ DescriberInit /\ HelperInit /\ MainInit /\ ResetInit

Next == ProcessScene(AlertLabels, AlertDelays, MaxAlertTime)
NextPersist == ProcessScene(PersistLabels, PersistDelays, MaxPersistTime)
NextImportant == ProcessScene(ImportantLabels, ImportantDelays, MaxImportantTime)
NextEmpty == ProcessScene(EmptyLabels, EmptyDelays, MaxEmptyTime)
NextDescribe == Describe(DescribeLabels, DescribeDelays, MaxDescribeTime)
NextRedescribe == DescribeFrom(RedescribeDetections, DescribeDelays, MaxRedescribeTime)
NextCompose == DescribeKeeping(ComposeDetections, ComposeDelays, MaxComposeTime, TRUE)
NextOrder == ProcessSceneFrom(OrderDetections, OrderDelays, MaxOrderTime, TRUE)
NextAtomic ==
    \/ BeginProcessScene(WatchdogDetections(AtomicLabels), AtomicDelays, MaxAtomicTime)
    \/ FinishProcessScene
    \/ FailProcessScene
NextLoop == MainLoop(LoopDetections, LoopDelays, MaxLoopTime)
NextReset ==
    \/ Announce(AnnounceNames, AnnounceDelays, MaxResetTime)
    \/ Reset
    \/ DescribeFollowed(ResetDetections, AnnounceDelays, MaxResetTime)
NextGroup == GroupObjects
NextSimilar == CompareScenes

Spec == Init /\ [][Next]_vars
SpecPersist == Init /\ [][NextPersist]_vars
SpecEmpty == Init /\ [][NextEmpty]_vars
SpecDescribe == Init /\ [][NextDescribe]_vars
SpecRedescribe == Init /\ [][NextRedescribe]_vars
SpecCompose == Init /\ [][NextCompose]_vars
SpecOrder == Init /\ [][NextOrder]_vars
SpecAtomic == Init /\ [][NextAtomic]_vars
SpecLoop == Init /\ [][NextLoop]_vars
SpecReset == Init /\ [][NextReset]_vars
SpecImportant == Init /\ [][NextImportant]_vars
SpecGroup == Init /\ [][NextGroup]_vars
SpecSimilar == Init /\ [][NextSimilar]_vars

----------------------------------------------------------------------------
(* Properties *)

Called == branch # "none"

\* C1: after every process_scene call, every label in the timer map or in
\* the persistent set is a label of the call's confidence-filtered frame.
C1_TrackedLabelsAreInFrame ==
    Called =>
        (DOMAIN object_persistence_time \cup persistent_objects)
            \subseteq DOMAIN current_objects

\* C2: a label is persistent after a call only if it was in the filtered
\* frame of every call of an interval of at least min_persistence_time
\* seconds that ends at this call.
C2_PersistentOnlyAfterContinuousPresence ==
    \A obj \in persistent_objects :
        /\ obj \in DOMAIN present_since
        /\ clock - present_since[obj] >= min_persistence_time

\* C3: a call whose filtered frame is empty returns [] or exactly
\* [(INFO, "Scene is clear.")], and leaves previous_state and
\* last_alert_time as they were.
C3_EmptyFrameLeavesStateAlone ==
    [][DOMAIN current_objects' = {} =>
          /\ alerts' \in {<<>>, <<ClearMessage>>}
          /\ previous_state' = previous_state
          /\ last_alert_time' = last_alert_time]_vars

\* C3 witness: with a laptop in previous_state, an empty frame is answered
\* by "Scene is clear." alone and the laptop is still in previous_state.
C3_Witness ==
    /\ branch = "empty"
    /\ alerts = <<ClearMessage>>
    /\ ~entry_previous.is_none
    /\ "laptop" \in entry_previous.labels
    /\ previous_state # None
    /\ DOMAIN previous_state.objects = entry_previous.labels

\* C4: two "New L detected" alerts of one important label, and two removal
\* warnings of one, are at least cooldown_seconds apart, and a call that
\* emits one stamps the key L, resp. "removed_" + L, with its time.
C4_ObjectAlertsKeepCooldown ==
    \A obj \in important_objects :
        /\ NewMessage(obj) \in DOMAIN prev_emitted =>
              last_emitted[NewMessage(obj)] - prev_emitted[NewMessage(obj)]
                  >= cooldown_seconds
        /\ RemovedMessage(obj) \in DOMAIN prev_emitted =>
              last_emitted[RemovedMessage(obj)] - prev_emitted[RemovedMessage(obj)]
                  >= cooldown_seconds
        /\ NewMessage(obj) \in Messages(alerts) =>
              Get(last_alert_time, obj, Never) = clock
        /\ RemovedMessage(obj) \in Messages(alerts) =>
              Get(last_alert_time, "removed_" \o obj, Never) = clock

\* C4 witness: the last call announced a new laptop for the second time and
\* warned of a removed person for the second time at some call.
C4_Witness ==
    /\ NewMessage("laptop") \in Messages(alerts)
    /\ NewMessage("laptop") \in DOMAIN prev_emitted
    /\ RemovedMessage("person") \in DOMAIN prev_emitted

\* C5: a get_spatial_description call that returns "" changes neither
\* last_announcement_time nor last_announcement_objects; they change only
\* on a call that returns a composed description.
C5_SilentCallLeavesStateAlone ==
    [][\/ describe_path' = "composed" /\ description' # ""
       \/ /\ last_announcement_time' = last_announcement_time
          /\ last_announcement_objects' = last_announcement_objects]_vars

\* C6: two get_spatial_description calls that each return a non-empty
\* string are at least cooldown_seconds apart.
C6_SpokenCallsKeepCooldown ==
    prev_spoken # Never => last_spoken - prev_spoken >= describe_cooldown_seconds

\* C7: a call whose filtered label set equals the label set of
\* previous_state returns no ALERT and no WARNING.
C7_SameLabelsNoAlert ==
    (Called /\ ~entry_previous.is_none
        /\ DOMAIN current_objects = entry_previous.labels) =>
        \A m \in Messages(alerts) : m[1] \notin {ALERT, WARNING}

\* C7 witness: a frame with a person was repeated and nothing was returned.
C7_Witness ==
    /\ branch = "steady"
    /\ ~entry_previous.is_none
    /\ "person" \in DOMAIN current_objects
    /\ DOMAIN current_objects = entry_previous.labels
    /\ alerts = <<>>

\* C8: the first call with an empty filtered frame, no "Scene is clear."
\* having been returned before, returns exactly [(INFO, "Scene is clear.")],
\* whatever the clock reads.
C8_FirstEmptyFrameIsAnnounced ==
    branch = "empty" =>
        \/ alerts = <<ClearMessage>>
        \/ /\ ClearMessage \notin Messages(alerts)
           /\ ClearMessage \in DOMAIN last_emitted

\* C9: two "Scene is clear." events are at least empty_scene_cooldown
\* apart, and an empty frame less than empty_scene_cooldown after the last
\* one returns [] and leaves last_empty_alert_time as it was.
C9_ClearKeepsCooldown ==
    /\ [](ClearMessage \in DOMAIN prev_emitted =>
             last_emitted[ClearMessage] - prev_emitted[ClearMessage]
                 >= empty_scene_cooldown)
    /\ [][(/\ DOMAIN current_objects' = {}
           /\ ClearMessage \in DOMAIN last_emitted
           /\ clock' - last_emitted[ClearMessage] < empty_scene_cooldown) =>
              /\ alerts' = <<>>
              /\ last_empty_alert_time' = last_empty_alert_time]_vars

\* C9 witness: "Scene is clear." was returned twice, and the last call, an
\* empty frame later than and within the cooldown of the second, returned
\* nothing.
C9_Witness ==
    /\ ClearMessage \in DOMAIN prev_emitted
    /\ branch = "empty"
    /\ alerts = <<>>
    /\ clock > last_emitted[ClearMessage]
    /\ last_empty_alert_time = last_emitted[ClearMessage]

\* C10: the call that finds previous_state unset and a non-empty filtered
\* frame returns [(ALERT, "Person detected in the scene.")] if a person is
\* in the frame and [] otherwise, stamps no cooldown key, stores the frame
\* as previous_state, and no second call takes that branch.
C10_FirstSceneBranch ==
    /\ (Called /\ entry_previous.is_none /\ DOMAIN current_objects # {}) =>
          /\ branch = "first"
          /\ alerts = IF "person" \in DOMAIN current_objects
                      THEN <<PersonMessage>> ELSE <<>>
          /\ last_alert_time = EmptyDict
          /\ previous_state # None
          /\ previous_state.objects = current_objects
    /\ branch = "first" => entry_previous.is_none /\ DOMAIN current_objects # {}
    /\ first_frame_calls <= 1

\* C10 witness: the first scene held a person and a laptop, and only the
\* person was announced.
C10_Witness ==
    /\ branch = "first"
    /\ DOMAIN current_objects = {"person", "laptop"}
    /\ alerts = <<PersonMessage>>
    /\ first_frame_calls = 1

\* the Jaccard similarity of two label sets, 0 when the previous one is
\* empty, is at least similarity_threshold
JaccardAtLeastThreshold(current, previous) ==
    /\ previous # {}
    /\ 10 * Cardinality(current \cap previous)
          >= similarity_threshold * Cardinality(current \cup previous)

\* the call of this step is made within the cooldown of the last
\* description or on a label set similar to the last described one
SuppressionDue ==
    \/ clock' - last_announcement_time < describe_cooldown_seconds
    \/ JaccardAtLeastThreshold(frame_objects', last_announcement_objects)

\* C11: a get_spatial_description call made within the cooldown, or on a
\* label set similar to last_announcement_objects, returns "" and leaves
\* last_announcement_time and last_announcement_objects as they were; and a
\* call on a label set that a description was returned for at any earlier
\* call returns "".
C11_SuppressedAndNeverDescribedAgain ==
    [][/\ SuppressionDue =>
             /\ description' = ""
             /\ last_announcement_time' = last_announcement_time
             /\ last_announcement_objects' = last_announcement_objects
       /\ frame_objects' \in described_sets => description' = ""]_vars

\* C11, amended: as C11, the second part for a call on the label set of
\* the last description, that is while last_announcement_objects is still
\* that label set, whatever the clock reads.
C11_SuppressedAndLastDescribedNotAgain ==
    [][/\ SuppressionDue =>
             /\ description' = ""
             /\ last_announcement_time' = last_announcement_time
             /\ last_announcement_objects' = last_announcement_objects
       /\ (/\ frame_objects' \in described_sets
           /\ frame_objects' = last_announcement_objects) =>
             /\ description' = ""
             /\ describe_path' = "suppressed"]_vars

\* C11 witness: a call on the label set of the last description, two
\* cooldowns after it, was suppressed.
C11_Witness ==
    /\ describe_path = "suppressed"
    /\ description = ""
    /\ frame_objects \in described_sets
    /\ frame_objects = last_announcement_objects
    /\ clock - last_announcement_time >= 2 * describe_cooldown_seconds

\* the two detections of the bucketing example
ChairExample == Detection("chair", 8, <<10, 50, 30, 90>>)
CupExample == Detection("cup", 8, <<10, 10, 20, 20>>)

Grouped == position_groups # None

NamesOf(detections, wanted) ==
    LET kept == SelectSeq(detections, LAMBDA d : d \in wanted)
    IN  [i \in 1..Len(kept) |-> kept[i][1]]

\* C12: grouping the chair at (0.1, 0.5, 0.3, 0.9) alone puts it in the
\* group "in_front", and grouping the cup at (0.1, 0.1, 0.2, 0.2) alone puts
\* it in the group "above".
C12_ChairInFrontCupAbove ==
    /\ (Grouped /\ grouped = <<ChairExample>>) =>
          position_groups["in_front"] = <<"chair">>
    /\ (Grouped /\ grouped = <<CupExample>>) =>
          position_groups["above"] = <<"cup">>

\* C12, amended: the chair, whose centre is at 0.2 of the width, is put in
\* the group "left" and in no other, and the cup in the group "above" and
\* in no other, in every frame made of these two detections.
C12_ChairLeftCupAbove ==
    (Grouped /\ \A i \in DOMAIN grouped : grouped[i] \in {ChairExample, CupExample}) =>
        position_groups =
            [above |-> NamesOf(grouped, {CupExample}),
             in_front |-> <<>>,
             below |-> <<>>,
             left |-> NamesOf(grouped, {ChairExample}),
             right |-> <<>>]

\* C12 witness: the cup and the chair of the example were grouped together.
C12_Witness ==
    /\ Grouped
    /\ grouped = <<CupExample, ChairExample>>
    /\ position_groups["left"] = <<"chair">>
    /\ position_groups["above"] = <<"cup">>

Compared == similar # None

\* C13: the similarity of two label sets is the same in both orders, is 1
\* for two identical sets, is 0 when the previous set is empty, and
\* _is_scene_similar answers the same in both orders.
C13_SimilaritySymmetricOneOnEqual ==
    Compared =>
        /\ similar.similarity_ab[1] * similar.similarity_ba[2]
              = similar.similarity_ba[1] * similar.similarity_ab[2]
        /\ compared[1] = compared[2] =>
              similar.similarity_ab[1] = similar.similarity_ab[2]
        /\ compared[2] = {} => similar.similarity_ab[1] = 0
        /\ similar.ab = similar.ba

\* C13, amended: as C13, with the similarity 1 for two identical sets that
\* are not empty; the similarity of the empty set with itself is 0.
C13_SimilaritySymmetricOneOnEqualNonEmpty ==
    Compared =>
        /\ similar.similarity_ab[1] * similar.similarity_ba[2]
              = similar.similarity_ba[1] * similar.similarity_ab[2]
        /\ (compared[1] = compared[2] /\ compared[1] # {}) =>
              similar.similarity_ab[1] = similar.similarity_ab[2]
        /\ compared[2] = {} => similar.similarity_ab[1] = 0
        /\ similar.ab = similar.ba

\* C13 witness: a set of three labels and a set of four that holds them
\* were found similar in both orders.
C13_Witness ==
    /\ Compared
    /\ compared = <<{"cup", "chair", "person"}, SimilarLabels>>
    /\ similar.ab
    /\ similar.ba

IsNewAlert(m) == \E obj \in important_objects : m = NewMessage(obj)

\* C14: in the list a process_scene call returns, every "New ... detected"
\* alert stands before every removal warning, and "Person detected in the
\* scene.", when returned, is the last element.
C14_NewThenRemovedThenPerson ==
    \A i, j \in DOMAIN alerts :
        /\ (IsNewAlert(alerts[i]) /\ alerts[j][1] = WARNING) => i < j
        /\ alerts[i] = PersonMessage => i = Len(alerts)

\* C14 witness: one call returned the three kinds of event.
C14_Witness ==
    /\ branch = "steady"
    /\ alerts = <<NewMessage("person"), RemovedMessage("laptop"), PersonMessage>>

\* C15: what a call returns, and for process_scene the objects it stores,
\* are the same for every order the detections of its frame are listed in
\* and every order its label sets are iterated in.
C15_OrderDoesNotMatter ==
    /\ Cardinality(listing_outputs) <= 1
    /\ Cardinality(listing_alerts) <= 1

\* C16: when a process_scene call has failed, last_alert_time, the
\* persistence timers, the persistent set, last_empty_alert_time and
\* previous_state are what they were when the call began.
C16_FailedCallLeavesStateAlone ==
    pc = "failed" => MonitorState = entry_state

\* the cooldown of a key of last_alert_time is over at the call of this step
CooldownOver(key) ==
    clock' - Get(last_alert_time, key, 0) >= cooldown_seconds

\* C17: the call on the first non-empty filtered frame F2 after empty
\* frames that followed a non-empty filtered frame F1 returns no "New"
\* alert for an important label of F1 and F2, returns the removal warning
\* of every important label of F1 missing from F2 and the "New" alert of
\* every important label of F2 missing from F1 whose cooldown is over; and
\* a call on an empty frame returns no warning.
C17_EmptyFramesKeepTheLastScene ==
    [][/\ (branch = "empty" /\ last_scene # {} /\ DOMAIN current_objects' # {}) =>
             /\ \A obj \in important_objects \cap last_scene \cap DOMAIN current_objects' :
                    NewMessage(obj) \notin Messages(alerts')
             /\ \A obj \in important_objects \cap (last_scene \ DOMAIN current_objects') :
                    RemovedMessage(obj) \in Messages(alerts')
                        <=> CooldownOver("removed_" \o obj)
             /\ \A obj \in important_objects \cap (DOMAIN current_objects' \ last_scene) :
                    NewMessage(obj) \in Messages(alerts') <=> CooldownOver(obj)
       /\ DOMAIN current_objects' = {} =>
             \A m \in Messages(alerts') : m[1] # WARNING]_vars

\* C17 witness: a person and a laptop, then an empty frame, then the person
\* alone: the laptop's removal is warned of at the last call and the person
\* is not announced again.
C17_Witness ==
    /\ branch = "steady"
    /\ after_empty
    /\ entry_previous.labels = {"person", "laptop"}
    /\ DOMAIN current_objects = {"person"}
    /\ alerts = <<RemovedMessage("laptop")>>

\* C18: a call of the steady-state branch returns "Person detected in the
\* scene." exactly when person is in its filtered frame and not in the
\* previous_state it began with, so together with "New person detected"
\* whenever that is returned; and the cooldown keys are those of the "New"
\* alerts and removal warnings, each holding the time its message was last
\* returned, so the person alert stamps none.
C18_PersonAlertWithoutCooldown ==
    /\ branch = "steady" =>
          /\ PersonMessage \in Messages(alerts) <=>
                 /\ "person" \in DOMAIN current_objects
                 /\ "person" \notin entry_previous.labels
          /\ NewMessage("person") \in Messages(alerts) =>
                 PersonMessage \in Messages(alerts)
    /\ \A key \in DOMAIN last_alert_time :
          \E obj \in important_objects :
              \/ /\ key = obj
                 /\ last_alert_time[key] = Get(last_emitted, NewMessage(obj), Never)
              \/ /\ key = "removed_" \o obj
                 /\ last_alert_time[key] = Get(last_emitted, RemovedMessage(obj), Never)

\* C18 witness: a person came back less than cooldown_seconds after the
\* call that returned both person alerts; "New person detected" was held
\* back by its cooldown and "Person detected in the scene." was returned.
C18_Witness ==
    /\ branch = "steady"
    /\ PersonMessage \in Messages(alerts)
    /\ NewMessage("person") \notin Messages(alerts)
    /\ PersonMessage \in DOMAIN prev_emitted
    /\ clock - prev_emitted[PersonMessage] < cooldown_seconds
    /\ Get(last_emitted, NewMessage("person"), Never) = prev_emitted[PersonMessage]

\* C19: a get_spatial_description call on an empty frame, made neither
\* within the cooldown nor on a label set similar to the last described
\* one, returns "The scene is empty." and leaves last_announcement_time and
\* last_announcement_objects as they were.
C19_EmptyFrameIsSaidAndNotRecorded ==
    [][(frame_objects' = {} /\ describe_path' # "none" /\ ~SuppressionDue) =>
          /\ description' = "The scene is empty."
          /\ last_announcement_time' = last_announcement_time
          /\ last_announcement_objects' = last_announcement_objects]_vars

\* C19 witness: after a description of a cup, an empty frame past the
\* cooldown was answered by "The scene is empty." and the cup is still the
\* last described label set.
C19_Witness ==
    /\ describe_path = "empty"
    /\ description = "The scene is empty."
    /\ frame_objects = {}
    /\ last_announcement_objects = {"cup"}
    /\ {"cup"} \in described_sets
    /\ clock - last_announcement_time >= describe_cooldown_seconds

\* the bucketing rule in words: the vertical class of a detection, and the
\* bucket it leads to, from the doubled centre of its box
VerticalClass(d) ==
    LET cy2 == d[3][2] + d[3][4]
    IN  IF d[1] \in large_objects
        THEN (IF cy2 > 60 THEN "in_front" ELSE "above")
        ELSE (IF cy2 < 80 THEN "above" ELSE IF cy2 > 140 THEN "below" ELSE "in_front")

Bucket(d) ==
    LET cx2 == d[3][1] + d[3][3]
    IN  IF VerticalClass(d) # "in_front" THEN VerticalClass(d)
        ELSE IF cx2 < 80 THEN "left"
        ELSE IF cx2 > 120 THEN "right"
        ELSE "in_front"

Buckets == {"above", "below", "in_front", "left", "right"}

InBucket(key) == {position_groups[key][i] : i \in DOMAIN position_groups[key]}

\* C20: the groups have the five keys, each group lists, in the order of
\* the frame, the names of the detections the rule sends to it, so every
\* detection is in one group only; no large object is in "below", and
\* "left" and "right" hold as many names as there are detections of
\* vertical class in_front whose centre is left of 0.4 or right of 0.6.
C20_EveryDetectionInOneBucket ==
    Grouped =>
        /\ DOMAIN position_groups = Buckets
        /\ \A key \in Buckets :
              position_groups[key] =
                  NamesOf(grouped, {d \in GroupDetections : Bucket(d) = key})
        /\ Len(position_groups["above"]) + Len(position_groups["below"])
              + Len(position_groups["in_front"]) + Len(position_groups["left"])
              + Len(position_groups["right"]) = Len(grouped)
        /\ InBucket("below") \cap large_objects = {}
        /\ Len(position_groups["left"]) + Len(position_groups["right"])
              = Cardinality({i \in DOMAIN grouped :
                    /\ VerticalClass(grouped[i]) = "in_front"
                    /\ \/ grouped[i][3][1] + grouped[i][3][3] < 80
                       \/ grouped[i][3][1] + grouped[i][3][3] > 120})

\* C20 witness: a chair low in the middle of the frame stayed in front, and
\* a cup low on the right went below and not to the right.
C20_Witness ==
    /\ Grouped
    /\ grouped = <<Detection("chair", 8, <<40, 80, 60, 100>>),
                   Detection("cup", 8, <<70, 80, 90, 100>>)>>
    /\ position_groups["in_front"] = <<"chair">>
    /\ position_groups["below"] = <<"cup">>
    /\ position_groups["right"] = <<>>

\* the segment of a bucket: its names, joined, and its wording, or nothing
Segment(detections, key, wording) ==
    LET names == NamesOf(detections, {d \in ComposeDetections : Bucket(d) = key})
    IN  IF names = <<>> THEN <<>> ELSE <<Join(names) \o wording>>

\* the description in words: "I see " and the segments of the buckets
\* above, in_front, left and right, in that order
Described(detections) ==
    LET segments == Segment(detections, "above", " above")
                    \o Segment(detections, "in_front", " in front")
                    \o Segment(detections, "left", " around the left")
                    \o Segment(detections, "right", " around the right")
    IN  IF segments = <<>> THEN "" ELSE "I see " \o Join(segments)

\* C21: a get_spatial_description call that composes returns "I see " and
\* one segment for each non-empty bucket among above, in_front, left and
\* right, in that order; the names of the bucket below are in no segment,
\* and a call that composes for detections that are all below returns "".
C21_DescriptionIsTheRenderedBuckets ==
    describe_path = "composed" =>
        /\ description = Described(described_frame)
        /\ (\A i \in DOMAIN described_frame : Bucket(described_frame[i]) = "below")
              => description = ""

\* C21 witness: a cup on the right, listed before a chair above, is
\* described after it.
C21_Witness ==
    /\ describe_path = "composed"
    /\ described_frame = <<Detection("cup", 9, <<70, 40, 90, 60>>),
                           Detection("chair", 9, <<10, 10, 20, 20>>)>>
    /\ description = "I see chair above, cup around the right"

\* C22: a label that has been in the filtered frame of every call since a
\* call made at least min_persistence_time seconds before the last one is
\* in the persistent set after the last call.
C22_ContinuousPresenceIsPromoted ==
    Called =>
        \A obj \in DOMAIN present_since :
            clock - present_since[obj] >= min_persistence_time
                => obj \in persistent_objects

\* C22 witness: a laptop first seen min_persistence_time seconds ago, its
\* timer set at that call, and in every frame since, is persistent.
C22_Witness ==
    /\ Called
    /\ "laptop" \in DOMAIN present_since
    /\ clock - present_since["laptop"] = min_persistence_time
    /\ object_persistence_time["laptop"] = present_since["laptop"]
    /\ "laptop" \in persistent_objects

\* C23: in the main loop watchdog_mode changes only on a tick that has a
\* bottle in the frame when the tick before had none and more than
\* mode_switch_cooldown after the last change; so two changes are more than
\* mode_switch_cooldown apart, and a bottle that stays in view changes the
\* mode at most once.
C23_ModeFlipsOnBottleEdgeAfterCooldown ==
    /\ [][watchdog_mode' # watchdog_mode =>
              /\ in_view' /\ ~in_view
              /\ (last_flip # Never => clock' - last_flip > mode_switch_cooldown)]_vars
    /\ [](prev_flip # Never => last_flip - prev_flip > mode_switch_cooldown)
    /\ [](run_flips <= 1)

\* the mode has changed twice, the second time by the bottle now in view, and
\* the bottle has stayed in view past the cooldown without another change
C23_Witness ==
    /\ prev_flip # Never
    /\ in_view
    /\ run_flips = 1
    /\ clock - last_flip > mode_switch_cooldown
    /\ ~watchdog_mode

\* C24: reset() resets every cooldown timer: the should_announce call that
\* follows reset() returns True whatever the name, and the
\* get_spatial_description call that follows reset() is not suppressed because
\* of the time since a description made before the reset.
C24_ResetClearsEveryCooldown ==
    reset_before =>
        /\ (last_call = "should_announce" => announced)
        /\ ~(/\ last_call = "get_spatial_description"
              /\ describe_path = "suppressed"
              /\ last_announcement_objects # {}
              /\ clock - last_announcement_time < describe_cooldown_seconds)

\* C25: previous_state, once set, is never unset and never holds an empty
\* object map; after every call whose filtered frame is non-empty its
\* objects are that frame's filtered map; so the significant-change test
\* never runs against an empty previous map.
C25_PreviousStateStaysNonEmpty ==
    /\ [][previous_state # None => previous_state' # None]_vars
    /\ [](previous_state # None => DOMAIN previous_state.objects # {})
    /\ []((Called /\ DOMAIN current_objects # {}) =>
              /\ previous_state # None
              /\ previous_state.objects = current_objects)
    /\ [](branch = "steady" =>
              /\ ~entry_previous.is_none
              /\ entry_previous.labels # {})

\* C25 witness: a laptop was stored, an empty frame followed, and the call
\* after it compared a cup with the stored laptop and stored the cup.
C25_Witness ==
    /\ branch = "steady"
    /\ after_empty
    /\ entry_previous.labels = {"laptop"}
    /\ previous_state # None
    /\ DOMAIN previous_state.objects = {"cup"}
    /\ previous_state.objects = current_objects

\* the labels the last call saw come and go: those of its filtered frame
\* that previous_state did not hold when it began, and the reverse
Added == DOMAIN current_objects \ entry_previous.labels
Removed == entry_previous.labels \ DOMAIN current_objects

\* no "New ... detected" alert and no removal warning of the last call names
\* a label outside important_objects
OnlyImportantNamed ==
    \A obj \in (Added \cup Removed) \ important_objects :
        /\ NewMessage(obj) \notin Messages(alerts)
        /\ RemovedMessage(obj) \notin Messages(alerts)

\* the frame of the last call changed the scene, and by labels outside
\* important_objects only
OnlyUnimportantChange ==
    /\ Added \cup Removed # {}
    /\ (Added \cup Removed) \cap important_objects = {}

\* C26: every "New ... detected" alert and every removal warning names a
\* label of important_objects, and a frame that adds or removes only labels
\* outside important_objects gets an empty list of alerts.
C26_UnimportantChangesAreSilent ==
    Called =>
        /\ OnlyImportantNamed
        /\ OnlyUnimportantChange => alerts = <<>>

\* C26 as it holds: the same, for the frames whose filtered map is not empty;
\* a frame that empties a scene of unimportant labels may get "Scene is
\* clear."
C26_UnimportantChangesAreSilentUnlessEmptied ==
    Called =>
        /\ OnlyImportantNamed
        /\ (OnlyUnimportantChange /\ DOMAIN current_objects # {}) => alerts = <<>>

\* C26 witness: a laptop and a cup were stored, the cooldown of the cup's
\* would-be removal has run out, and the frame that drops the cup alone gets
\* no alert.
C26_Witness ==
    /\ branch = "steady"
    /\ entry_previous.labels = {"laptop", "cup"}
    /\ DOMAIN current_objects = {"laptop"}
    /\ clock >= cooldown_seconds
    /\ alerts = <<>>

====
